---- MODULE Spec2Model ----
(***************************************************************************)
(* Model of pdfOcr2Word (src/converter/pdf_ocr_to_word.py, src/main.py).   *)
(*                                                                         *)
(* A text is a sequence of one-character strings.  The alphabet has one    *)
(* representative per character class the code distinguishes:              *)
(*   "Z"   an ideograph of the range U+4E00..U+9FA5                        *)
(*   " "   a blank, "\n" a line break (both match \s, "\n" splits lines)   *)
(*   "a"   any other character                                             *)
(*   "!"   a member of end_punct                                           *)
(***************************************************************************)
EXTENDS Integers, Sequences, FiniteSets, TLC

VARIABLES
    text,        \* text functions: the input string
    tokens,      \* text functions: remove_tokens of the call
    fmt,         \* text functions: auto_format of the call
    op,          \* text functions: the function applied last
    out          \* text functions: its result

textVars == <<text, tokens, fmt, op, out>>

VARIABLES
    mode,            \* "ocr" | "text" | "mac": the entry point called
    pathExists,      \* os.path.exists(pdf_path)
    nPages,          \* the number of pages the source yields
    max_workers,     \* the size of the thread pool
    hasCallback,     \* progress_callback is not None
    auto_format,     \* the auto_format argument
    remove_tokens,   \* the remove_tokens argument (text mode)
    fitzInstalled,   \* fitz is not None
    ocrmacInstalled, \* ocrmac is not None
    ocr_engine,      \* "tesseract" | "paddle": the ocr_engine argument
    paddleInstalled  \* PaddleOCR is not None

config == <<mode, pathExists, nPages, max_workers, hasCallback, auto_format,
            remove_tokens, fitzInstalled, ocrmacInstalled, ocr_engine, paddleInstalled>>

VARIABLES
    pc,          \* the stage the call has reached
    error,       \* the exception the call raised, "none" if none
    dirCreated,  \* os.makedirs(output_dir) has run
    total,       \* the page count announced to the callback
    task,        \* ocr: the state of the worker call for each page index
    ret,         \* ocr: the (idx, text) each finished worker call returned
    raw,         \* the raw text the engine or text layer gave for each page
    raised,      \* the page indices whose recognition raised
    lock,        \* ocr: the page indices whose workers hold lock, {} if free
    processed,   \* the completion counter
    results,     \* ocr: the indexed result buffer
    collected,   \* ocr: how many results executor.map has yielded
    doneOrder,   \* ocr: the page indices in the order their worker calls ended
    cancelPos,   \* ocr: the next future the result iterator will cancel
    page_texts,  \* the list of page texts
    cbLog,       \* the calls progress_callback received: <<completed, total>>
    doc,         \* the blocks added to the Document
    saved,       \* doc.save(output_path) has run
    stages,      \* the stages the call has entered, in order
    reconstructed,  \* how many pages have their final text
    writeLog,    \* ocr: the writes to results: the slot and the thread writing
    pbar,        \* main.py: the count the progress bar has accumulated
    engineCache, \* _paddle_ocr_instances[lang]: the instance cached, 0 if none
    constructed  \* how many PaddleOCR instances the process has constructed

run == <<pc, error, dirCreated, total, task, ret, raw, raised, lock, processed, results,
         collected, doneOrder, cancelPos, page_texts, cbLog, doc, saved, stages,
         reconstructed, writeLog, pbar, engineCache, constructed>>

vars == <<textVars, config, run>>

-----------------------------------------------------------------------------
(* Bounds *)

MaxLen == 5
MaxPages == 3
MaxWorkers == 2

-----------------------------------------------------------------------------
(* Character classes *)

CJK == {"Z"}
Whitespace == {" ", "\n"}
LineBreaks == {"\n"}
end_punct == {"!"}
Chars == CJK \cup Whitespace \cup {"a"} \cup end_punct

RECURSIVE StringsUpTo(_)
StringsUpTo(n) ==
    IF n = 0 THEN {<<>>}
    ELSE LET shorter == StringsUpTo(n - 1)
         IN shorter \cup {Append(s, c) : s \in {t \in shorter : Len(t) = n - 1}, c \in Chars}

Tokens == {<<"a">>, <<"Z">>, <<"a", "!">>, <<"a", " ", "a">>, <<"Z", " ", "Z">>}

RemoveTokenLists ==
    {<<>>} \cup {<<t>> : t \in Tokens} \cup {<<<<"a", "!">>, <<"a">>>>, <<<<"a">>, <<"a", "!">>>>}

-----------------------------------------------------------------------------
(* str and re primitives *)

IsCJK(c) == c \in CJK
IsSpace(c) == c \in Whitespace

\* first position >= i of s that holds no whitespace (Len(s) + 1 if none)
RECURSIVE SpaceRunEnd(_, _)
SpaceRunEnd(s, i) ==
    IF i > Len(s) \/ ~IsSpace(s[i]) THEN i ELSE SpaceRunEnd(s, i + 1)

\* str.strip()
RECURSIVE lstrip(_)
lstrip(s) == IF s # <<>> /\ IsSpace(Head(s)) THEN lstrip(Tail(s)) ELSE s

RECURSIVE rstrip(_)
rstrip(s) ==
    IF s # <<>> /\ IsSpace(s[Len(s)]) THEN rstrip(SubSeq(s, 1, Len(s) - 1)) ELSE s

strip(s) == rstrip(lstrip(s))

\* str.splitlines(), blank lines included
RECURSIVE SplitFrom(_, _, _)
SplitFrom(s, i, cur) ==
    IF i > Len(s) THEN (IF cur = <<>> THEN <<>> ELSE <<cur>>)
    ELSE IF s[i] \in LineBreaks THEN <<cur>> \o SplitFrom(s, i + 1, <<>>)
    ELSE SplitFrom(s, i + 1, Append(cur, s[i]))

splitlines(s) == SplitFrom(s, 1, <<>>)

\* sep.join(parts)
RECURSIVE join(_, _)
join(sep, parts) ==
    IF parts = <<>> THEN <<>>
    ELSE IF Len(parts) = 1 THEN parts[1]
    ELSE parts[1] \o sep \o join(sep, Tail(parts))

\* str.endswith(end_punct)
endswith(s) == s # <<>> /\ s[Len(s)] \in end_punct

\* re.sub(r"\s+", " ", s)
RECURSIVE CollapseFrom(_, _)
CollapseFrom(s, i) ==
    IF i > Len(s) THEN <<>>
    ELSE IF IsSpace(s[i]) THEN <<" ">> \o CollapseFrom(s, SpaceRunEnd(s, i))
    ELSE <<s[i]>> \o CollapseFrom(s, i + 1)

collapse_spaces(s) == CollapseFrom(s, 1)

\* str.replace(token, ""): left to right, matches do not overlap, one pass
RECURSIVE ReplaceFrom(_, _, _)
ReplaceFrom(s, token, i) ==
    IF i > Len(s) THEN <<>>
    ELSE IF i + Len(token) - 1 <= Len(s) /\ SubSeq(s, i, i + Len(token) - 1) = token
         THEN ReplaceFrom(s, token, i + Len(token))
    ELSE <<s[i]>> \o ReplaceFrom(s, token, i + 1)

replace(s, token) == IF token = <<>> THEN s ELSE ReplaceFrom(s, token, 1)

\* token in s
Contains(s, token) ==
    \E i \in 1..(Len(s) + 1) :
        i + Len(token) - 1 <= Len(s) /\ SubSeq(s, i, i + Len(token) - 1) = token

-----------------------------------------------------------------------------
(* _clean_chinese_spacing: re.sub(r"([Z])\s+([Z])", r"\1\2", text).        *)
(* re.sub scans left to right; a match consumes both ideographs, so the    *)
(* scan resumes after the second one.  \s+ is greedy and an ideograph is   *)
(* no whitespace, so a match at i takes the whole whitespace run.          *)

RECURSIVE CleanFrom(_, _)
CleanFrom(s, i) ==
    IF i > Len(s) THEN <<>>
    ELSE LET j == SpaceRunEnd(s, i + 1)
         IN IF IsCJK(s[i]) /\ j > i + 1 /\ j <= Len(s) /\ IsCJK(s[j])
            THEN <<s[i], s[j]>> \o CleanFrom(s, j + 1)
            ELSE <<s[i]>> \o CleanFrom(s, i + 1)

clean_chinese_spacing(s) == CleanFrom(s, 1)

-----------------------------------------------------------------------------
(* _format_page_text *)

\* lines = [ln.strip() for ln in text.splitlines() if ln.strip() != ""]
NonBlankLines(s) ==
    LET all == splitlines(s)
    IN SelectSeq([k \in 1..Len(all) |-> strip(all[k])], LAMBDA ln : ln # <<>>)

\* the two rewrites at the head of the loop body
NormalizeLine(ln) == collapse_spaces(clean_chinese_spacing(ln))

\* the separator put between a buffer and the line appended to it
JoinLine(buf, ln) == buf \o <<" ">> \o ln

\* faulty variant: the test looks at the line about to be appended
ClosesParagraphOnLine(buf, ln) == endswith(ln)

\* the test that closes the buffer as a paragraph
ClosesParagraph(buf, ln) == endswith(buf)

\* the for loop over lines, then the trailing "if buf"
RECURSIVE MergeLines(_, _, _, _)
MergeLines(lines, k, buf, merged) ==
    IF k > Len(lines)
    THEN (IF buf # <<>> THEN Append(merged, buf) ELSE merged)
    ELSE LET ln == NormalizeLine(lines[k])
         IN IF buf = <<>> THEN MergeLines(lines, k + 1, ln, merged)
            ELSE IF ClosesParagraph(buf, ln)
                 THEN MergeLines(lines, k + 1, ln, Append(merged, buf))
            ELSE MergeLines(lines, k + 1, JoinLine(buf, ln), merged)

format_page_text(s) ==
    LET t == strip(s)
    IN IF t = <<>> THEN <<>>
       ELSE join(<<"\n", "\n">>, MergeLines(NonBlankLines(t), 1, <<>>, <<>>))

-----------------------------------------------------------------------------
(* _extract_text_layer_pages, the body of the loop for one page *)

RECURSIVE RemoveTokens(_, _)
RemoveTokens(content, toks) ==
    IF toks = <<>> THEN content
    ELSE RemoveTokens(replace(content, Head(toks)), Tail(toks))

PageContent(content, toks, format) ==
    IF content # <<>>
    THEN LET cleaned == clean_chinese_spacing(content)
             removed == RemoveTokens(cleaned, toks)
             formatted == IF format THEN format_page_text(removed) ELSE removed
         IN strip(formatted)
    ELSE <<>>

-----------------------------------------------------------------------------
(* The text functions applied to every input up to MaxLen characters *)

\* no conversion runs while the text functions are applied
PipeIdle ==
    /\ mode = "text"
    /\ pathExists = FALSE
    /\ nPages = 0
    /\ max_workers = 1
    /\ hasCallback = FALSE
    /\ auto_format = TRUE
    /\ remove_tokens = <<>>
    /\ fitzInstalled = TRUE
    /\ ocrmacInstalled = TRUE
    /\ ocr_engine = "tesseract"
    /\ paddleInstalled = TRUE
    /\ stages = <<>>
    /\ reconstructed = 0
    /\ writeLog = <<>>
    /\ pbar = 0
    /\ engineCache = 0
    /\ constructed = 0
    /\ pc = "Idle"
    /\ error = "none"
    /\ dirCreated = FALSE
    /\ total = 0
    /\ processed = 0
    /\ cbLog = <<>>
    /\ task = <<>>
    /\ ret = <<>>
    /\ lock = {}
    /\ results = <<>>
    /\ collected = 0
    /\ doneOrder = <<>>
    /\ cancelPos = 0
    /\ raw = <<>>
    /\ raised = {}
    /\ page_texts = <<>>
    /\ doc = <<>>
    /\ saved = FALSE

TextInit ==
    /\ PipeIdle
    /\ text \in StringsUpTo(MaxLen)
    /\ tokens = <<>>
    /\ fmt = TRUE
    /\ op = "input"
    /\ out = <<>>

CleanChineseSpacing ==
    /\ op = "input"
    /\ op' = "clean"
    /\ out' = clean_chinese_spacing(text)
    /\ UNCHANGED <<text, tokens, fmt, config, run>>

\* the transform applied to its own result
CleanChineseSpacingAgain ==
    /\ op = "clean"
    /\ op' = "clean_twice"
    /\ out' = clean_chinese_spacing(out)
    /\ UNCHANGED <<text, tokens, fmt, config, run>>

FormatPageText ==
    /\ op = "input"
    /\ op' = "format"
    /\ out' = format_page_text(text)
    /\ UNCHANGED <<text, tokens, fmt, config, run>>

ExtractTextLayerPage ==
    /\ op = "input"
    /\ \E toks \in RemoveTokenLists, f \in BOOLEAN :
         /\ tokens' = toks
         /\ fmt' = f
         /\ out' = PageContent(text, toks, f)
    /\ op' = "text_layer"
    /\ UNCHANGED <<text, config, run>>

TextNext ==
    \/ CleanChineseSpacing
    \/ CleanChineseSpacingAgain
    \/ FormatPageText
    \/ ExtractTextLayerPage

-----------------------------------------------------------------------------
(* The three conversion calls.  A page index is the one enumerate(images)  *)
(* gives: 0 .. nPages - 1.                                                 *)

Pages == 0..(nPages - 1)

\* the value None where a text is expected
None == <<"None">>

\* what a recognition engine or the text layer can give for one page
PageTexts == {<<>>, <<"Z", " ", "Z">>, <<"a", "!", "\n", "a", "\n">>}

RemoveTokenArgs == {<<>>, <<<<"a">>>>}

\* "t or ''"
TextOr(t) == IF t = None THEN <<>> ELSE t

\* _ocr_image_to_text_tesseract: the engine's string, stripped
ocr_image_to_text(engineOutput) == strip(engineOutput)

\* the texts a page can have when the reconstruction starts
CollectedTexts == PageTexts \cup {TextOr(ocr_image_to_text(t)) : t \in PageTexts}

\* _format_page_text over those texts
Formatted == [t \in CollectedTexts |-> format_page_text(t)]

stage == <<pc, stages>>
engine == <<engineCache, constructed>>
progress == <<total, processed, cbLog, pbar>>
pool == <<task, ret, lock, results, collected, doneOrder, cancelPos>>
pages == <<raw, raised, page_texts>>
document == <<doc, saved>>

PipeInit ==
    /\ mode \in {"ocr", "text", "mac"}
    /\ pathExists \in BOOLEAN
    /\ nPages \in (IF pathExists THEN 0..MaxPages ELSE {0})
    /\ max_workers \in (IF mode = "ocr" THEN 1..MaxWorkers ELSE {1})
    /\ hasCallback \in BOOLEAN
    /\ auto_format \in BOOLEAN
    /\ remove_tokens \in (IF mode = "text" THEN RemoveTokenArgs ELSE {<<>>})
    /\ fitzInstalled \in (IF mode = "mac" THEN BOOLEAN ELSE {TRUE})
    /\ ocrmacInstalled \in (IF mode = "mac" THEN BOOLEAN ELSE {TRUE})
    /\ ocr_engine \in (IF mode = "ocr" THEN {"tesseract", "paddle"} ELSE {"tesseract"})
    /\ paddleInstalled \in (IF ocr_engine = "paddle" THEN BOOLEAN ELSE {TRUE})
    /\ engineCache \in (IF ocr_engine = "paddle" /\ paddleInstalled THEN {0, 1} ELSE {0})
    /\ constructed = engineCache
    /\ stages = <<>>
    /\ reconstructed = 0
    /\ writeLog = <<>>
    /\ pbar = 0
    /\ pc = "NotStarted"
    /\ error = "none"
    /\ dirCreated = FALSE
    /\ total = 0
    /\ processed = 0
    /\ cbLog = <<>>
    /\ task = [i \in Pages |-> "unsubmitted"]
    /\ ret = [i \in Pages |-> <<i, None>>]
    /\ lock = {}
    /\ results = [i \in Pages |-> None]
    /\ collected = 0
    /\ doneOrder = <<>>
    /\ cancelPos = 0
    /\ raw = [i \in Pages |-> None]
    /\ raised = {}
    /\ page_texts = <<>>
    /\ doc = <<>>
    /\ saved = FALSE

\* the call enters a stage
Goto(s) == pc' = s /\ stages' = Append(stages, s)

\* raise e out of the call
Fail(e) == Goto("Failed") /\ error' = e

\* main.progress_callback, the callback the CLI passes: the bar is created on
\* the first call, and "pbar.update(1)" on every call, whatever current is
progress_callback(current, tot) == pbar + 1

\* progress_callback(completed, total), when a callback was given
Notify(completed, tot) ==
    /\ cbLog' = IF hasCallback THEN Append(cbLog, <<completed, tot>>) ELSE cbLog
    /\ pbar' = IF hasCallback THEN progress_callback(completed, tot) ELSE pbar

\* the existence check and os.makedirs at the head of each call
OpenSource ==
    IF ~pathExists
    THEN Fail("FileNotFoundError") /\ UNCHANGED dirCreated
    ELSE Goto("SourceOpened") /\ dirCreated' = TRUE /\ UNCHANGED error

\* faulty variant: a page break after every page
NeedsPageBreakAlways(idx, n) == TRUE

\* "if idx != len(page_texts)"
NeedsPageBreak(idx, n) == idx # n

\* the loop that fills the Document: a paragraph per page, a break between
RECURSIVE DocumentBlocks(_, _)
DocumentBlocks(texts, idx) ==
    IF idx > Len(texts) THEN <<>>
    ELSE <<[kind |-> "paragraph", text |-> TextOr(texts[idx])]>>
         \o (IF NeedsPageBreak(idx, Len(texts))
             THEN <<[kind |-> "page_break", text |-> <<>>]>> ELSE <<>>)
         \o DocumentBlocks(texts, idx + 1)

\* the Document is filled and saved
SaveDocument ==
    /\ doc' = DocumentBlocks(page_texts, 1)
    /\ saved' = TRUE
    /\ Goto("Persisted")

-----------------------------------------------------------------------------
(* convert_pdf_to_docx and _ocr_pages_in_parallel *)

ConvertStart ==
    /\ mode = "ocr" /\ pc = "NotStarted"
    /\ OpenSource
    /\ UNCHANGED <<textVars, config, engine, writeLog, reconstructed,
                   progress, pool, pages, document>>

\* faulty variant: the list of images is not tested
NoImagesUntested == FALSE

\* "not images"
NoImages == nPages = 0

\* images = _pdf_to_images(...); "if not images: raise ValueError"
PdfToImages ==
    /\ mode = "ocr" /\ pc = "SourceOpened"
    /\ IF NoImages
       THEN Fail("ValueError")
       ELSE Goto("PagesMaterialized") /\ UNCHANGED error
    /\ UNCHANGED <<textVars, config, engine, writeLog, reconstructed,
                   dirCreated, progress, pool, pages, document>>

\* the head of _ocr_pages_in_parallel, the pool's creation and executor.map,
\* which submits every page before it yields a result
OcrPagesBegin ==
    /\ mode = "ocr" /\ pc = "PagesMaterialized"
    /\ total' = nPages
    /\ results' = [i \in Pages |-> None]
    /\ processed' = 0
    /\ Notify(0, nPages)
    /\ task' = [i \in Pages |-> "queued"]
    /\ Goto("Recognizing")
    /\ UNCHANGED <<textVars, config, engine, writeLog, reconstructed,
                   error, dirCreated, ret, lock, collected,
                   doneOrder, cancelPos, pages, document>>

\* the worker calls that occupy a pool thread
Active ==
    {i \in Pages :
        task[i] \in {"get_engine", "constructing", "ocr", "await_lock", "locked", "counted"}}

\* a pool thread takes the oldest queued call
StartTask(i) ==
    /\ task[i] = "queued"
    /\ \A j \in Pages : j < i => task[j] # "queued"
    /\ Cardinality(Active) < max_workers
    /\ task' = [task EXCEPT ![i] = IF ocr_engine = "paddle" THEN "get_engine" ELSE "ocr"]
    /\ UNCHANGED <<textVars, config, engine, writeLog, reconstructed,
                   stage, error, dirCreated, progress, ret, lock,
                   results, collected, doneOrder, cancelPos, pages, document>>

\* "lang in _paddle_ocr_instances"
Cached == engineCache # 0

\* the head of _get_paddle_ocr on the worker's thread: the test for the
\* missing package, then the test for a cached instance
GetPaddleOcr(i) ==
    /\ task[i] = "get_engine"
    /\ task' = [task EXCEPT ![i] =
                    IF ~paddleInstalled THEN "unavailable"
                    ELSE IF Cached THEN "ocr"
                    ELSE "constructing"]
    /\ UNCHANGED <<textVars, config, engine, writeLog, reconstructed,
                   stage, error, dirCreated, progress, ret, lock,
                   results, collected, doneOrder, cancelPos, pages, document>>

\* "_paddle_ocr_instances[lang] = PaddleOCR(...)": a new instance is built
\* and replaces whatever the dictionary holds for lang
ConstructPaddleOcr(i) ==
    /\ task[i] = "constructing"
    /\ constructed' = constructed + 1
    /\ engineCache' = constructed + 1
    /\ task' = [task EXCEPT ![i] = "ocr"]
    /\ UNCHANGED <<textVars, config, writeLog, reconstructed,
                   stage, error, dirCreated, progress, ret, lock,
                   results, collected, doneOrder, cancelPos, pages, document>>

\* faulty variant: every worker call returns the first index
WorkerReturnsFirst(idx, t) == <<0, t>>

\* what worker returns
WorkerReturn(idx, t) == <<idx, t>>

\* the state of a worker call once it has its text
AfterRecognition == IF hasCallback THEN "await_lock" ELSE "done"

\* the calls that have ended, once call i has its text
EndedAfterRecognition(i) == IF hasCallback THEN doneOrder ELSE Append(doneOrder, i)

\* the engine returns for page i
Recognize(i, engineOutput) ==
    /\ task[i] = "ocr"
    /\ raw' = [raw EXCEPT ![i] = engineOutput]
    /\ ret' = [ret EXCEPT ![i] = WorkerReturn(i, TextOr(ocr_image_to_text(engineOutput)))]
    /\ task' = [task EXCEPT ![i] = AfterRecognition]
    /\ doneOrder' = EndedAfterRecognition(i)
    /\ UNCHANGED <<textVars, config, engine, writeLog, reconstructed,
                   stage, error, dirCreated, progress, lock, results,
                   collected, cancelPos, raised, page_texts, document>>

\* faulty variant: worker catches the exception and goes on with an empty text
WorkerCatches == FALSE

\* worker has no try/except: an exception of the engine ends the call
PropagatesException == TRUE

\* the engine raises for page i
RecognizeRaises(i) ==
    /\ task[i] = "ocr"
    /\ raised' = raised \cup {i}
    /\ IF PropagatesException
       THEN task' = [task EXCEPT ![i] = "raised"] /\ UNCHANGED <<ret, doneOrder>>
       ELSE /\ task' = [task EXCEPT ![i] = AfterRecognition]
            /\ ret' = [ret EXCEPT ![i] = WorkerReturn(i, <<>>)]
            /\ doneOrder' = EndedAfterRecognition(i)
    /\ UNCHANGED <<textVars, config, engine, writeLog, reconstructed,
                   stage, error, dirCreated, progress, lock, results,
                   collected, cancelPos, raw, page_texts, document>>

\* faulty variant: the counter is updated and reported without the lock
LockIgnored == TRUE

\* "with lock:" can be entered
LockAvailable == lock = {}

AcquireLock(i) ==
    /\ task[i] = "await_lock"
    /\ LockAvailable
    /\ lock' = {i}
    /\ task' = [task EXCEPT ![i] = "locked"]
    /\ UNCHANGED <<textVars, config, engine, writeLog, reconstructed,
                   stage, error, dirCreated, progress, ret, results,
                   collected, doneOrder, cancelPos, pages, document>>

\* faulty variant: the counter is not advanced
ProcessedKept(n) == n

\* "processed += 1"
ProcessedPlusOne(n) == n + 1

Increment(i) ==
    /\ task[i] = "locked"
    /\ processed' = ProcessedPlusOne(processed)
    /\ task' = [task EXCEPT ![i] = "counted"]
    /\ UNCHANGED <<textVars, config, engine, writeLog, reconstructed,
                   stage, error, dirCreated, total, cbLog, pbar, ret, lock,
                   results, collected, doneOrder, cancelPos, pages, document>>

\* progress_callback(processed, total), the lock's release and the return
Report(i) ==
    /\ task[i] = "counted"
    /\ Notify(processed, total)
    /\ lock' = {}
    /\ task' = [task EXCEPT ![i] = "done"]
    /\ doneOrder' = Append(doneOrder, i)
    /\ UNCHANGED <<textVars, config, engine, writeLog, reconstructed,
                   stage, error, dirCreated, total, processed, ret,
                   results, collected, cancelPos, pages, document>>

\* faulty variant: the slot before idx is written (the last slot for idx = 0)
StoreBefore(res, idx, t) == [res EXCEPT ![(idx + nPages - 1) % nPages] = t]

\* "results[idx] = text"
StoreResult(res, idx, t) == [res EXCEPT ![idx] = t]

\* executor.map yields the results in the order of submission
CollectResult ==
    /\ mode = "ocr" /\ pc = "Recognizing"
    /\ collected < nPages
    /\ task[collected] = "done"
    /\ results' = StoreResult(results, ret[collected][1], ret[collected][2])
    /\ writeLog' = Append(writeLog, [slot |-> ret[collected][1], by |-> "caller"])
    /\ collected' = collected + 1
    /\ UNCHANGED <<textVars, config, engine, reconstructed,
                   stage, error, dirCreated, progress, task, ret, lock,
                   doneOrder, cancelPos, pages, document>>

\* the next result is an exception: the result iterator starts to cancel the
\* futures it has not yielded, last submitted first
CollectRaises ==
    /\ mode = "ocr" /\ pc = "Recognizing"
    /\ collected < nPages
    /\ task[collected] \in {"raised", "unavailable"}
    /\ Goto("Cancelling")
    /\ cancelPos' = nPages - 1
    /\ UNCHANGED <<textVars, config, engine, writeLog, reconstructed,
                   error, dirCreated, progress, task, ret, lock,
                   results, collected, doneOrder, pages, document>>

\* future.cancel(): only a call no thread has taken is cancelled
CancelFuture ==
    /\ pc = "Cancelling"
    /\ cancelPos > collected
    /\ task' = [task EXCEPT ![cancelPos] =
                    IF task[cancelPos] = "queued" THEN "cancelled" ELSE task[cancelPos]]
    /\ cancelPos' = cancelPos - 1
    /\ UNCHANGED <<textVars, config, engine, writeLog, reconstructed,
                   stage, error, dirCreated, progress, ret, lock,
                   results, collected, doneOrder, pages, document>>

\* faulty variant: shutdown(wait=False)
PoolNotAwaited == TRUE

\* shutdown(wait=True): no worker call runs
PoolIdle == Active = {}

\* the with block's exit, shutdown(wait=True), returns once no call runs;
\* the exception then leaves convert_pdf_to_docx
PoolDrained ==
    /\ pc = "Cancelling"
    /\ cancelPos = collected
    /\ PoolIdle
    /\ Fail(IF task[collected] = "unavailable" THEN "RuntimeError" ELSE "RecognitionError")
    /\ UNCHANGED <<textVars, config, engine, writeLog, reconstructed,
                   dirCreated, progress, pool, pages, document>>

\* every result was yielded: the pool shuts down and the list is returned
PoolExit ==
    /\ mode = "ocr" /\ pc = "Recognizing"
    /\ collected = nPages
    /\ page_texts' = [k \in 1..nPages |-> TextOr(results[k - 1])]
    /\ Goto("RecognitionComplete")
    /\ UNCHANGED <<textVars, config, engine, writeLog, reconstructed,
                   error, dirCreated, progress, pool, raw, raised,
                   document>>

\* "if auto_format: page_texts = [_format_page_text(text) ...]"
FormatPages ==
    /\ mode = "ocr" /\ pc = "RecognitionComplete"
    /\ page_texts' = IF auto_format
                     THEN [k \in 1..Len(page_texts) |-> Formatted[page_texts[k]]]
                     ELSE page_texts
    /\ reconstructed' = Len(page_texts)
    /\ Goto("Reconstructed")
    /\ UNCHANGED <<textVars, config, engine, writeLog,
                   error, dirCreated, progress, pool, raw, raised,
                   document>>

WriteDocx ==
    /\ mode = "ocr" /\ pc = "Reconstructed"
    /\ SaveDocument
    /\ UNCHANGED <<textVars, config, engine, writeLog, reconstructed,
                   error, dirCreated, progress, pool, pages>>

ConvertReturn ==
    /\ mode = "ocr" /\ pc = "Persisted"
    /\ Goto("Done")
    /\ UNCHANGED <<textVars, config, engine, writeLog, reconstructed,
                   error, dirCreated, progress, pool, pages, document>>

-----------------------------------------------------------------------------
(* extract_pdf_text_to_docx and _extract_text_layer_pages *)

ExtractStart ==
    /\ mode = "text" /\ pc = "NotStarted"
    /\ OpenSource
    /\ UNCHANGED <<textVars, config, engine, writeLog, reconstructed,
                   progress, pool, pages, document>>

\* pdfplumber.open, total = len(pdf.pages), progress_callback(0, total)
TextLayerOpen ==
    /\ mode = "text" /\ pc = "SourceOpened"
    /\ total' = nPages
    /\ processed' = 0
    /\ Notify(0, nPages)
    /\ Goto("PagesMaterialized")
    /\ UNCHANGED <<textVars, config, engine, writeLog, reconstructed,
                   error, dirCreated, pool, pages, document>>

\* one turn of the loop over pdf.pages
ExtractNextPage(content) ==
    /\ mode = "text" /\ pc = "PagesMaterialized"
    /\ Len(page_texts) < nPages
    /\ raw' = [raw EXCEPT ![Len(page_texts)] = content]
    /\ page_texts' = Append(page_texts, PageContent(content, remove_tokens, auto_format))
    /\ reconstructed' = reconstructed + 1
    /\ processed' = processed + 1
    /\ Notify(processed + 1, total)
    /\ UNCHANGED <<textVars, config, engine, writeLog,
                   stage, error, dirCreated, total, pool, raised, document>>

\* faulty variant: "return texts" sits inside the loop body
ReturnsInsideLoop(n) == n >= 1 \/ nPages = 0

\* the loop over pdf.pages has visited every page
LoopOver(n) == n = nPages

\* the loop is over: the texts, already formatted, go back to the caller
ExtractLoopExit ==
    /\ mode = "text" /\ pc = "PagesMaterialized"
    /\ LoopOver(Len(page_texts))
    /\ Goto("Reconstructed")
    /\ UNCHANGED <<textVars, config, engine, writeLog, reconstructed,
                   error, dirCreated, progress, pool, pages, document>>

ExtractWriteDocx ==
    /\ mode = "text" /\ pc = "Reconstructed"
    /\ SaveDocument
    /\ UNCHANGED <<textVars, config, engine, writeLog, reconstructed,
                   error, dirCreated, progress, pool, pages>>

ExtractReturn ==
    /\ mode = "text" /\ pc = "Persisted"
    /\ Goto("Done")
    /\ UNCHANGED <<textVars, config, engine, writeLog, reconstructed,
                   error, dirCreated, progress, pool, pages, document>>

-----------------------------------------------------------------------------
(* convert_pdf_to_docx_mac_vision *)

\* the two dependency checks come before the existence check
MacStart ==
    /\ mode = "mac" /\ pc = "NotStarted"
    /\ IF ~fitzInstalled \/ ~ocrmacInstalled
       THEN Fail("RuntimeError") /\ UNCHANGED dirCreated
       ELSE OpenSource
    /\ UNCHANGED <<textVars, config, engine, writeLog, reconstructed,
                   progress, pool, pages, document>>

\* fitz.open, total = len(doc_pdf), progress_callback(0, total)
MacOpen ==
    /\ mode = "mac" /\ pc = "SourceOpened"
    /\ total' = nPages
    /\ processed' = 0
    /\ Notify(0, nPages)
    /\ Goto("PagesMaterialized")
    /\ UNCHANGED <<textVars, config, engine, writeLog, reconstructed,
                   error, dirCreated, pool, pages, document>>

\* one turn of the loop over doc_pdf: the page is recognized
MacNextPage(recognized) ==
    /\ mode = "mac" /\ pc = "PagesMaterialized"
    /\ Len(page_texts) < nPages
    /\ raw' = [raw EXCEPT ![Len(page_texts)] = recognized]
    /\ page_texts' = Append(page_texts, recognized)
    /\ processed' = processed + 1
    /\ Notify(processed + 1, total)
    /\ UNCHANGED <<textVars, config, engine, writeLog, reconstructed,
                   stage, error, dirCreated, total, pool, raised, document>>

\* one turn of the loop over doc_pdf: the recognition raises
MacPageRaises ==
    /\ mode = "mac" /\ pc = "PagesMaterialized"
    /\ Len(page_texts) < nPages
    /\ raised' = raised \cup {Len(page_texts)}
    /\ Fail("RecognitionError")
    /\ UNCHANGED <<textVars, config, engine, writeLog, reconstructed,
                   dirCreated, progress, pool, raw, page_texts, document>>

MacLoopExit ==
    /\ mode = "mac" /\ pc = "PagesMaterialized"
    /\ Len(page_texts) = nPages
    /\ Goto("RecognitionComplete")
    /\ UNCHANGED <<textVars, config, engine, writeLog, reconstructed,
                   error, dirCreated, progress, pool, pages, document>>

MacFormatPages ==
    /\ mode = "mac" /\ pc = "RecognitionComplete"
    /\ page_texts' = IF auto_format
                     THEN [k \in 1..Len(page_texts) |-> Formatted[page_texts[k]]]
                     ELSE page_texts
    /\ reconstructed' = Len(page_texts)
    /\ Goto("Reconstructed")
    /\ UNCHANGED <<textVars, config, engine, writeLog,
                   error, dirCreated, progress, pool, raw, raised,
                   document>>

MacWriteDocx ==
    /\ mode = "mac" /\ pc = "Reconstructed"
    /\ SaveDocument
    /\ UNCHANGED <<textVars, config, engine, writeLog, reconstructed,
                   error, dirCreated, progress, pool, pages>>

MacReturn ==
    /\ mode = "mac" /\ pc = "Persisted"
    /\ Goto("Done")
    /\ UNCHANGED <<textVars, config, engine, writeLog, reconstructed,
                   error, dirCreated, progress, pool, pages, document>>

-----------------------------------------------------------------------------
(* Specifications *)

\* the text functions are not in use while a conversion runs
TextIdle ==
    /\ text = <<>>
    /\ tokens = <<>>
    /\ fmt = TRUE
    /\ op = "idle"
    /\ out = <<>>

Init == PipeInit /\ TextIdle

Next ==
    \/ ConvertStart
    \/ PdfToImages
    \/ OcrPagesBegin
    \/ \E i \in Pages : StartTask(i)
    \/ \E i \in Pages : GetPaddleOcr(i)
    \/ \E i \in Pages : ConstructPaddleOcr(i)
    \/ \E i \in Pages, t \in PageTexts : Recognize(i, t)
    \/ \E i \in Pages : RecognizeRaises(i)
    \/ \E i \in Pages : AcquireLock(i)
    \/ \E i \in Pages : Increment(i)
    \/ \E i \in Pages : Report(i)
    \/ CollectResult
    \/ CollectRaises
    \/ CancelFuture
    \/ PoolDrained
    \/ PoolExit
    \/ FormatPages
    \/ WriteDocx
    \/ ConvertReturn
    \/ ExtractStart
    \/ TextLayerOpen
    \/ \E content \in PageTexts : ExtractNextPage(content)
    \/ ExtractLoopExit
    \/ ExtractWriteDocx
    \/ ExtractReturn
    \/ MacStart
    \/ MacOpen
    \/ \E t \in PageTexts : MacNextPage(t)
    \/ MacPageRaises
    \/ MacLoopExit
    \/ MacFormatPages
    \/ MacWriteDocx
    \/ MacReturn

Spec == Init /\ [][Next]_vars

\* every step that can be taken is taken at some time: the interpreter runs the
\* calling thread and every started worker thread until each of them ends
FairSpec == Spec /\ WF_vars(Next)

TextSpec == TextInit /\ [][TextNext]_vars

-----------------------------------------------------------------------------
(* Claims about the text functions, checked under TextSpec *)

\* C8 (as claimed): _clean_chinese_spacing is idempotent: applying it to its
\* own result changes nothing, for every input string.
C8_CleanIdempotent ==
    op = "clean_twice" => out = clean_chinese_spacing(text)

\* the paragraphs of normalized lines nl from line a on: a paragraph runs up to
\* and including the first line that ends with a sentence-terminal mark
RECURSIVE ParagraphsFrom(_, _)
ParagraphsFrom(nl, a) ==
    IF a > Len(nl) THEN <<>>
    ELSE LET b == CHOOSE e \in a..Len(nl) :
                      /\ e = Len(nl) \/ nl[e][Len(nl[e])] \in end_punct
                      /\ \A k \in a..(e - 1) : nl[k][Len(nl[k])] \notin end_punct
         IN <<join(<<" ">>, SubSeq(nl, a, b))>> \o ParagraphsFrom(nl, b + 1)

C10_NoTokenLeft ==
    op = "text_layer" =>
        \A k \in 1..Len(tokens) : ~Contains(out, tokens[k])

-----------------------------------------------------------------------------
(* Claims about the conversion calls, checked under Spec *)

Ended == pc \in {"Done", "Failed"}
Paragraphs == SelectSeq(doc, LAMBDA b : b.kind = "paragraph")
PageBreaks == SelectSeq(doc, LAMBDA b : b.kind = "page_break")

\* C1: when _ocr_pages_in_parallel returns, the list has one element per
\* image and element i is the text recognized from image i, whatever the pool
\* size and the order in which the worker calls ended.
C1_OrderPreserved ==
    (mode = "ocr" /\ pc = "RecognitionComplete") =>
        /\ Len(page_texts) = nPages
        /\ \A i \in Pages : page_texts[i + 1] = strip(raw[i])

\* C1 witness: three pages, two pool threads, page 1 ended before page 0 and
\* the two pages carry different texts.
C1_Witness ==
    /\ mode = "ocr" /\ pc = "RecognitionComplete"
    /\ nPages = 3 /\ max_workers = 2
    /\ doneOrder = <<1, 0, 2>>
    /\ raw[0] = <<"Z", " ", "Z">> /\ raw[1] = <<"a", "!", "\n", "a", "\n">>
    /\ page_texts[2] = <<"a", "!", "\n", "a">>

\* C2: in a successful run with a callback, in each mode, the completed
\* values reported are non-decreasing, start at 0, end at total, never exceed
\* total, and every call carries the same total.
C2_ProgressMonotone ==
    (pc = "Done" /\ hasCallback) =>
        /\ cbLog # <<>>
        /\ cbLog[1][1] = 0
        /\ cbLog[Len(cbLog)][1] = cbLog[Len(cbLog)][2]
        /\ \A k \in 1..Len(cbLog) : cbLog[k][1] <= cbLog[k][2] /\ cbLog[k][2] = nPages
        /\ \A k \in 1..(Len(cbLog) - 1) : cbLog[k][1] <= cbLog[k + 1][1]

\* C2 witness: a finished parallel run over three pages that reported 0..3.
C2_Witness ==
    /\ pc = "Done" /\ hasCallback /\ mode = "ocr"
    /\ max_workers = 2
    /\ cbLog = <<<<0, 3>>, <<1, 3>>, <<2, 3>>, <<3, 3>>>>

\* C3: in the parallel path the listener sees 0, 1, ..., N, each once and in
\* that order, N + 1 calls in a successful run, for every interleaving.
C3_AtomicProgress ==
    (mode = "ocr" /\ hasCallback) =>
        /\ \A k \in 1..Len(cbLog) : cbLog[k] = <<k - 1, nPages>>
        /\ pc \in {"RecognitionComplete", "Reconstructed", "Persisted", "Done"}
               => Len(cbLog) = nPages + 1

\* C3 witness: a worker holds the lock with the counter advanced and not yet
\* reported while another worker waits for the lock.
C3_Witness ==
    /\ mode = "ocr" /\ hasCallback
    /\ Len(cbLog) >= 2
    /\ \E i, j \in Pages : task[i] = "counted" /\ task[j] = "await_lock"

\* C4: once the recognition of a page has raised in convert_pdf_to_docx, the
\* texts of the other pages are never used, the call never reaches Persisted,
\* no document is written, and the call ends with the exception.
C4_FailsAsWhole ==
    (mode = "ocr" /\ raised # {}) =>
        /\ pc \notin {"RecognitionComplete", "Reconstructed", "Persisted", "Done"}
        /\ page_texts = <<>> /\ doc = <<>> /\ ~saved
        /\ Ended => pc = "Failed" /\ error = "RecognitionError"

\* C4 witness: the call failed after other pages had completed and one of
\* their results had been stored.
C4_Witness ==
    /\ mode = "ocr" /\ pc = "Failed" /\ error = "RecognitionError"
    /\ collected >= 1
    /\ \E i \in Pages : i > collected /\ task[i] = "done"

\* C5 (as claimed): in every mode a missing input path makes the call fail
\* with the not-found error before any other work.
C5_NotFoundFirst ==
    ~pathExists =>
        /\ pc \in {"NotStarted", "Failed"}
        /\ pc = "Failed" => error = "FileNotFoundError"
        /\ ~dirCreated /\ cbLog = <<>> /\ page_texts = <<>>

\* C6 (as claimed): in the ocr and mac-vision modes a source of zero pages
\* makes the run fail with the empty-source error; nothing is persisted.
C6_EmptySourceFails ==
    (mode \in {"ocr", "mac"} /\ pathExists /\ nPages = 0) =>
        /\ ~saved /\ pc \notin {"Persisted", "Done"}
        /\ (pc = "Failed" /\ fitzInstalled /\ ocrmacInstalled) => error = "ValueError"

\* C7 (as claimed): the persisted document holds N paragraph blocks and
\* N - 1 page breaks.
C7_PaginationAsClaimed ==
    pc \in {"Persisted", "Done"} =>
        /\ Len(Paragraphs) = nPages
        /\ Len(PageBreaks) = nPages - 1

\* C7 (amended): the persisted document holds N paragraph blocks in page
\* order, an empty one for a page without text, each but the last followed by
\* one page break: N - 1 breaks when N >= 1, none when N = 0.
C7_Pagination ==
    pc \in {"Persisted", "Done"} =>
        /\ Len(Paragraphs) = nPages
        /\ Len(PageBreaks) = (IF nPages = 0 THEN 0 ELSE nPages - 1)
        /\ Len(doc) = Len(Paragraphs) + Len(PageBreaks)
        /\ \A k \in 1..nPages :
            /\ doc[2 * k - 1].kind = "paragraph"
            /\ doc[2 * k - 1].text = page_texts[k]
            /\ raw[k - 1] = <<>> => doc[2 * k - 1].text = <<>>
            /\ k < nPages => doc[2 * k].kind = "page_break"

\* C7 witness: three pages, the middle one without text: three blocks, the
\* second empty, and two breaks.
C7_Witness ==
    /\ pc = "Done" /\ nPages = 3
    /\ raw[0] # <<>> /\ raw[1] = <<>> /\ raw[2] # <<>>
    /\ Len(doc) = 5
    /\ doc[3] = [kind |-> "paragraph", text |-> <<>>]
    /\ doc[2].kind = "page_break" /\ doc[4].kind = "page_break"

-----------------------------------------------------------------------------
(* Further claims about the conversion calls, checked under Spec *)

\* C11 (as claimed): the process constructs at most one PaddleOCR instance
\* per language key, also when several workers ask for it concurrently.
C11_OneEnginePerKey == constructed <= 1

\* the slots written so far
SlotsWritten == {writeLog[k].slot : k \in 1..Len(writeLog)}

\* C12 (as claimed): each slot of results is written exactly once and the
\* write to a slot is performed by a worker.
C12_WrittenByWorkers ==
    /\ Cardinality(SlotsWritten) = Len(writeLog)
    /\ \A k \in 1..Len(writeLog) : writeLog[k].by = "worker"

\* C12 (amended): each slot of results is written at most once, exactly once
\* in a successful run, and every write is made by the calling thread as it
\* takes the results of executor.map; no worker writes to the buffer.
C12_WriteOnce ==
    /\ Cardinality(SlotsWritten) = Len(writeLog)
    /\ SlotsWritten \subseteq Pages
    /\ \A k \in 1..Len(writeLog) : writeLog[k].by = "caller"
    /\ (mode = "ocr" /\ pc \in {"RecognitionComplete", "Reconstructed", "Persisted", "Done"})
           => SlotsWritten = Pages

\* C12 witness: three pages whose worker calls ended in the order 1, 2, 0,
\* and three writes, to the slots 0, 1, 2.
C12_Witness ==
    /\ mode = "ocr" /\ pc = "RecognitionComplete"
    /\ nPages = 3 /\ max_workers = 2
    /\ doneOrder = <<1, 2, 0>>
    /\ [k \in 1..Len(writeLog) |-> writeLog[k].slot] = <<0, 1, 2>>

\* the fixed order of the stages; Recognizing and Cancelling are the two
\* phases of the parallel stage that precede RecognitionComplete
StageOrder ==
    <<"SourceOpened", "PagesMaterialized", "Recognizing", "Cancelling",
      "RecognitionComplete", "Reconstructed", "Persisted", "Done", "Failed">>

\* the place of stage s in that order
Rank(s) == CHOOSE k \in 1..Len(StageOrder) : StageOrder[k] = s

\* the call has entered stage s
Entered(s) == \E k \in 1..Len(stages) : stages[k] = s

\* every stage entered comes later in the order than the one before it
StagesInOrder == \A k \in 1..(Len(stages) - 1) : Rank(stages[k]) < Rank(stages[k + 1])

\* the pages whose raw text has been obtained
PagesObtained == {i \in Pages : raw[i] # None}

\* C13 (as claimed): in every mode the stages are entered in the fixed order,
\* no page is reconstructed before the texts of all N pages are collected,
\* and the document is persisted only after every page is reconstructed.
C13_StagesAsClaimed ==
    /\ StagesInOrder
    /\ reconstructed > 0 => PagesObtained = Pages
    /\ saved => reconstructed = nPages

\* C13 (amended): the stages are entered in the fixed order and the document
\* is persisted only after every page is reconstructed; in the ocr and mac
\* modes no page is reconstructed before all N texts are collected, while in
\* text mode page i is reconstructed as soon as its own text is extracted.
C13_StageOrder ==
    /\ StagesInOrder
    /\ mode \in {"ocr", "mac"} =>
           (reconstructed > 0 => PagesObtained = Pages /\ Len(page_texts) = nPages)
    /\ mode = "text" =>
           /\ reconstructed = Len(page_texts)
           /\ PagesObtained = 0..(reconstructed - 1)
    /\ saved => reconstructed = nPages /\ Len(page_texts) = nPages

\* C13 witness: a text-mode run over three pages that went through every
\* stage of its path.
C13_Witness ==
    /\ mode = "text" /\ nPages = 3 /\ auto_format
    /\ stages = <<"SourceOpened", "PagesMaterialized", "Reconstructed", "Persisted", "Done">>
    /\ reconstructed = 3

\* once the call has ended no worker call runs or waits to run
PoolQuiet ==
    (mode = "ocr" /\ Ended) =>
        /\ Active = {}
        /\ \A i \in Pages : task[i] # "queued"

\* C14: when convert_pdf_to_docx has returned or raised, no worker call runs
\* or waits to run and the callback is not invoked any more; and as every
\* worker call that starts also ends, the call ends, in Done or in Failed.
C14_PoolDrained ==
    /\ []PoolQuiet
    /\ [][Ended => cbLog' = cbLog]_vars
    /\ <>Ended

\* C14 witness: the call failed on page 0 while page 1 was in progress and
\* page 2 was still queued: page 1 ran to its end, page 2 was cancelled.
C14_Witness ==
    /\ mode = "ocr" /\ pc = "Failed" /\ hasCallback
    /\ nPages = 3 /\ collected = 0
    /\ task = [i \in Pages |-> IF i = 0 THEN "raised" ELSE IF i = 1 THEN "done" ELSE "cancelled"]

\* C15 (as claimed): the error for a missing dependency of the engine is
\* raised only after the source is opened and the pages are materialized.
C15_LazyEngineError ==
    error = "RuntimeError" => Entered("SourceOpened") /\ Entered("PagesMaterialized")

\* the text obtained for page k (1-based) before any reconstruction
Obtained(k) ==
    IF mode = "ocr" THEN results[k - 1]
    ELSE IF mode = "text" THEN RemoveTokens(raw[k - 1], remove_tokens)
    ELSE raw[k - 1]

\* C16 (as claimed): with auto_format false the text written for each page is
\* the raw text obtained for it, in every mode.
C16_RawPassThrough ==
    (~auto_format /\ pc \in {"Persisted", "Done"}) =>
        \A k \in 1..nPages : doc[2 * k - 1].text = Obtained(k)

\* C18: whenever the thread pool is created there is at least one page.
C18_NoEmptyPool == Entered("Recognizing") => nPages >= 1

\* C18 witness: the pool was created for a single page, which is queued.
C18_Witness ==
    /\ pc = "Recognizing" /\ nPages = 1
    /\ task[0] = "queued"

\* C20 (as claimed): after each callback (current, total) the progress bar's
\* count equals current, so it never exceeds total.
C20_BarMatchesCurrent ==
    (hasCallback /\ cbLog # <<>>) =>
        /\ pbar = cbLog[Len(cbLog)][1]
        /\ pbar <= cbLog[Len(cbLog)][2]

-----------------------------------------------------------------------------
(* Further claims about the text functions, checked under TextSpec *)

\* C17 (as claimed): in text-layer mode the tokens are removed from the raw
\* text first, the spacing is repaired second, the lines are merged third.
C17_TokensRemovedFirst ==
    op = "text_layer" =>
        LET removed == RemoveTokens(text, tokens)
            cleaned == clean_chinese_spacing(removed)
        IN out = strip(IF fmt THEN format_page_text(cleaned) ELSE cleaned)

\* C19 (as claimed): with formatting on and no tokens the text-layer path
\* gives the string _format_page_text gives for the same raw text.
C19_SameReconstruction ==
    (op = "text_layer" /\ fmt /\ tokens = <<>>) => out = format_page_text(text)

====
